---- MODULE Spec2Model ----
(***************************************************************************)
(* Model of tailorcv's deterministic core:                                 *)
(*   mappers/rendercv_mapper.py       build_cv_dict and its helpers        *)
(*   assemblers/rendercv_document.py  assemble_rendercv_document           *)
(*                                                                         *)
(* Python values.  An Optional[str] is None or Str(s).  A list of strings  *)
(* is an object with an identity (ref) and its items (v), so that a copy   *)
(* made by list(...) can be told from the list it was copied from.  A      *)
(* dict whose key order is never observed is a function on its keys; the   *)
(* sections dict, whose insertion order is the output's section order, is  *)
(* a sequence of [k, v] pairs.                                             *)
(***************************************************************************)
EXTENDS Naturals, Sequences, FiniteSets, TLC

VARIABLES profile, plan, design, locale, settings, cv_dict, document, pc

vars == <<profile, plan, design, locale, settings, cv_dict, document, pc>>

None == [t |-> "None"]

Str(s) == [t |-> "str", v |-> s]

ListObj(r, items) == [t |-> "list", ref |-> r, v |-> items]

IsStr(x) == x.t = "str"

IsList(x) == x.t = "list"

\* Python truthiness of None, a str or a list.
Truthy(x) ==
    CASE x.t = "None" -> FALSE
      [] x.t = "str"  -> x.v # ""
      [] x.t = "list" -> x.v # <<>>

\* list(x): a new list object, at address addr, with the items of x.
list_copy(x, addr) == ListObj(addr, x.v)

\* The address of the k-th list allocated at an allocation site.
Alloc(site, k) == <<"new", site, k>>

\* Range of a sequence: set(xs).
SetOf(xs) == {xs[i] : i \in 1..Len(xs)}

(***************************************************************************)
(* dicts                                                                   *)
(***************************************************************************)
EmptyDict == <<>>

\* d[k] = v
DictSet(d, k, v) == [x \in (DOMAIN d) \cup {k} |-> IF x = k THEN v ELSE d[x]]

\* d.get(k, default)
DictGet(d, k, default) == IF k \in DOMAIN d THEN d[k] ELSE default

\* dict(m): a new dict with the items of mapping m (a shallow copy).
dict_copy(m) == [k \in DOMAIN m |-> m[k]]

\* Insertion-ordered dict: a sequence of [k, v] pairs with distinct keys.
OKeys(d) == [i \in 1..Len(d) |-> d[i].k]

OHas(d, key) == \E i \in 1..Len(d) : d[i].k = key

OGet(d, key) == d[CHOOSE i \in 1..Len(d) : d[i].k = key].v

\* d[key] = val: replaces in place when the key exists, appends otherwise.
OSet(d, key, val) ==
    IF OHas(d, key)
    THEN [i \in 1..Len(d) |-> IF d[i].k = key THEN [k |-> key, v |-> val] ELSE d[i]]
    ELSE Append(d, [k |-> key, v |-> val])

\* d without key (the dict left by d.pop(key)).
ODel(d, key) == SelectSeq(d, LAMBDA e : e.k # key)

(***************************************************************************)
(* rendercv_mapper.py                                                      *)
(***************************************************************************)
_set_if_present(target, key, value) ==
    IF value = None THEN target
    ELSE IF IsList(value) /\ value.v = <<>> THEN target
    ELSE DictSet(target, key, value)

\* Variant: the override lookup without the "entry_id and" test, so that an
\* empty id finds the override under the empty key.
_resolve_highlights_any_id(entry_id, highlights, plan_, addr) ==
    IF IsStr(entry_id) /\ entry_id.v \in DOMAIN plan_.bullet_overrides
    THEN list_copy(plan_.bullet_overrides[entry_id.v], addr)
    ELSE list_copy(highlights, addr)

\* Variant: the chosen list is returned as it is, without list(...).
_resolve_highlights_no_copy(entry_id, highlights, plan_, addr) ==
    IF Truthy(entry_id) /\ entry_id.v \in DOMAIN plan_.bullet_overrides
    THEN plan_.bullet_overrides[entry_id.v]
    ELSE highlights

_resolve_highlights(entry_id, highlights, plan_, addr) ==
    IF Truthy(entry_id) /\ entry_id.v \in DOMAIN plan_.bullet_overrides
    THEN list_copy(plan_.bullet_overrides[entry_id.v], addr)
    ELSE list_copy(highlights, addr)

\* Variant: no select-all for an empty selection.
_select_items_filter_only(items, selected_ids) ==
    LET selected == SetOf(selected_ids)
    IN  SelectSeq(items, LAMBDA item : IsStr(item.id) /\ item.id.v \in selected)

_select_items(items, selected_ids) ==
    IF selected_ids = <<>> THEN items
    ELSE LET selected == SetOf(selected_ids)
         IN  SelectSeq(items, LAMBDA item : IsStr(item.id) /\ item.id.v \in selected)

\* if highlights: item["highlights"] = highlights
SetHighlights(item, highlights) ==
    IF Truthy(highlights) THEN DictSet(item, "highlights", highlights) ELSE item

_map_experience(profile_, plan_) ==
    LET entries == _select_items(profile_.experience, plan_.selected_experience_ids)
        Item(k) ==
            LET exp == entries[k]
                i0 == [company |-> exp.company, position |-> exp.position]
                i1 == _set_if_present(i0, "location", exp.location)
                i2 == _set_if_present(i1, "date", exp.date)
                i3 == _set_if_present(i2, "start_date", exp.start_date)
                i4 == _set_if_present(i3, "end_date", exp.end_date)
                i5 == _set_if_present(i4, "summary", exp.summary)
                highlights == _resolve_highlights(exp.id, exp.highlights, plan_,
                                                  Alloc("Experience", k))
            IN  SetHighlights(i5, highlights)
    IN  [k \in 1..Len(entries) |-> Item(k)]

_map_education(profile_, plan_) ==
    LET entries == _select_items(profile_.education, plan_.selected_education_ids)
        Item(k) ==
            LET edu == entries[k]
                i0 == [institution |-> edu.institution, area |-> edu.area]
                i1 == _set_if_present(i0, "degree", edu.degree)
                i2 == _set_if_present(i1, "location", edu.location)
                i3 == _set_if_present(i2, "date", edu.date)
                i4 == _set_if_present(i3, "start_date", edu.start_date)
                i5 == _set_if_present(i4, "end_date", edu.end_date)
                i6 == _set_if_present(i5, "summary", edu.summary)
                highlights == _resolve_highlights(edu.id, edu.highlights, plan_,
                                                  Alloc("Education", k))
            IN  SetHighlights(i6, highlights)
    IN  [k \in 1..Len(entries) |-> Item(k)]

_map_projects(profile_, plan_) ==
    LET entries == _select_items(profile_.projects, plan_.selected_project_ids)
        Item(k) ==
            LET proj == entries[k]
                i0 == [name |-> proj.name]
                i1 == _set_if_present(i0, "summary", proj.summary)
                i2 == _set_if_present(i1, "location", proj.location)
                i3 == _set_if_present(i2, "date", proj.date)
                i4 == _set_if_present(i3, "start_date", proj.start_date)
                i5 == _set_if_present(i4, "end_date", proj.end_date)
                highlights == _resolve_highlights(proj.id, proj.highlights, plan_,
                                                  Alloc("Projects", k))
            IN  SetHighlights(i5, highlights)
    IN  [k \in 1..Len(entries) |-> Item(k)]

\* Variant: details read from the label attribute.
_map_skills_label_twice(profile_, plan_) ==
    LET selected_labels == SetOf(plan_.selected_skill_labels)
        entries == IF selected_labels # {}
                   THEN SelectSeq(profile_.skills, LAMBDA s : s.label \in selected_labels)
                   ELSE profile_.skills
    IN  [k \in 1..Len(entries) |->
            [label |-> entries[k].label, details |-> entries[k].label]]

\* Variant: skills in the order of the selected labels, once per mention.
RECURSIVE SkillsInLabelOrder(_, _, _)
SkillsInLabelOrder(skills, labels, i) ==
    IF i > Len(labels) THEN <<>>
    ELSE SelectSeq(skills, LAMBDA s : s.label = labels[i])
             \o SkillsInLabelOrder(skills, labels, i + 1)

_map_skills_label_order(profile_, plan_) ==
    LET entries == IF plan_.selected_skill_labels # <<>>
                   THEN SkillsInLabelOrder(profile_.skills, plan_.selected_skill_labels, 1)
                   ELSE profile_.skills
    IN  [k \in 1..Len(entries) |->
            [label |-> entries[k].label, details |-> entries[k].details]]

_map_skills(profile_, plan_) ==
    LET selected_labels == SetOf(plan_.selected_skill_labels)
        entries == IF selected_labels # {}
                   THEN SelectSeq(profile_.skills, LAMBDA s : s.label \in selected_labels)
                   ELSE profile_.skills
    IN  [k \in 1..Len(entries) |->
            [label |-> entries[k].label, details |-> entries[k].details]]

_apply_header(cv, profile_) ==
    LET meta == profile_.meta
        c0 == DictSet(cv, "name", meta.name)
        c1 == _set_if_present(c0, "headline", meta.headline)
        c2 == _set_if_present(c1, "location", meta.location)
        c3 == _set_if_present(c2, "email", meta.email)
        c4 == _set_if_present(c3, "phone", meta.phone)
        c5 == _set_if_present(c4, "website", meta.website)
    IN  IF Truthy(meta.socials)
        THEN DictSet(c5, "social_networks",
                     ListObj(Alloc("social_networks", 1),
                             [i \in 1..Len(meta.socials.v) |->
                                 [network  |-> meta.socials.v[i].network,
                                  username |-> meta.socials.v[i].username]]))
        ELSE c5

\* for title in preferred_order: if title in remaining: ordered[title] = remaining.pop(title)
\* The pair <<ordered, remaining>> after the titles from position i on.
RECURSIVE PreferredLoop(_, _, _, _)
PreferredLoop(preferred_order, i, ordered, remaining) ==
    IF i > Len(preferred_order) THEN <<ordered, remaining>>
    ELSE LET title == preferred_order[i]
         IN  IF OHas(remaining, title)
             THEN PreferredLoop(preferred_order, i + 1,
                                OSet(ordered, title, OGet(remaining, title)),
                                ODel(remaining, title))
             ELSE PreferredLoop(preferred_order, i + 1, ordered, remaining)

\* for title, entries in remaining.items(): ordered[title] = entries
RECURSIVE RemainingLoop(_, _, _)
RemainingLoop(remaining, i, ordered) ==
    IF i > Len(remaining) THEN ordered
    ELSE RemainingLoop(remaining, i + 1, OSet(ordered, remaining[i].k, remaining[i].v))

\* Variant: the sections the preferred order does not name are not appended.
_order_sections_named_only(sections, preferred_order) ==
    IF preferred_order = <<>> THEN sections
    ELSE PreferredLoop(preferred_order, 1, <<>>, sections)[1]

_order_sections(sections, preferred_order) ==
    IF preferred_order = <<>> THEN sections
    ELSE LET remaining == sections
             after == PreferredLoop(preferred_order, 1, <<>>, remaining)
         IN  RemainingLoop(after[2], 1, after[1])

\* Variant: the section is set without the emptiness test.
SetSection_unconditional(sections, title, entries) == OSet(sections, title, entries)

\* if entries: sections[title] = entries
SetSection(sections, title, entries) ==
    IF entries # <<>> THEN OSet(sections, title, entries) ELSE sections

build_cv_dict(profile_, plan_) ==
    LET cv0 == _apply_header(EmptyDict, profile_)
        s0 == <<>>
        s1 == SetSection(s0, "Experience", _map_experience(profile_, plan_))
        s2 == SetSection(s1, "Projects", _map_projects(profile_, plan_))
        s3 == SetSection(s2, "Education", _map_education(profile_, plan_))
        s4 == SetSection(s3, "Skills", _map_skills(profile_, plan_))
        ordered_sections == _order_sections(s4, plan_.section_order)
        cv1 == IF ordered_sections # <<>>
               THEN DictSet(cv0, "sections", ordered_sections)
               ELSE cv0
    IN  [cv |-> cv1]

(***************************************************************************)
(* rendercv_document.py                                                    *)
(***************************************************************************)
\* tailorcv.defaults.rendercv_defaults: three fixed mappings.
get_default_design == [theme |-> "default-design"]

get_default_locale == [language |-> "default-locale"]

get_default_settings == [render |-> "default-settings"]

\* Variant: "if design" in place of "if design is not None", so that an empty
\* override gives way to the default.
assemble_rendercv_document_truthy(cv_dict_, design_, locale_, settings_) ==
    LET Given(block) == block # None /\ block # EmptyDict
        d0 == [cv |-> dict_copy(DictGet(cv_dict_, "cv", EmptyDict))]
        d1 == DictSet(d0, "design",
                      IF Given(design_) THEN dict_copy(design_) ELSE get_default_design)
        d2 == DictSet(d1, "locale",
                      IF Given(locale_) THEN dict_copy(locale_) ELSE get_default_locale)
        d3 == DictSet(d2, "settings",
                      IF Given(settings_) THEN dict_copy(settings_) ELSE get_default_settings)
    IN  d3

assemble_rendercv_document(cv_dict_, design_, locale_, settings_) ==
    LET d0 == [cv |-> dict_copy(DictGet(cv_dict_, "cv", EmptyDict))]
        d1 == DictSet(d0, "design",
                      IF design_ # None THEN dict_copy(design_) ELSE get_default_design)
        d2 == DictSet(d1, "locale",
                      IF locale_ # None THEN dict_copy(locale_) ELSE get_default_locale)
        d3 == DictSet(d2, "settings",
                      IF settings_ # None THEN dict_copy(settings_) ELSE get_default_settings)
    IN  d3

(***************************************************************************)
(* Inputs: profiles and plans of bounded size.                             *)
(***************************************************************************)
\* Longest entry list of a profile category.
MaxEntries == 2

\* Longest selected-identifier (or selected-label) list of a plan.
MaxSel == 2

\* Longest plan.section_order.
MaxOrder == 2

SeqsUpTo(S, n) == UNION {[1..m -> S] : m \in 0..n}

\* Optional[str] field values: absent, empty, non-empty.
OptVals == {None, Str(""), Str("x")}

\* Entry identifiers: absent, empty, two distinct ids.
IdVals == {None, Str(""), Str("a"), Str("b")}

\* Identifiers a plan can name; "zz" names no profile entry.
SelKeys == {"", "a", "b", "zz"}

\* Skill labels of a profile.
LabelVals == {"", "a", "b"}

ExpOptFields == {"location", "date", "start_date", "end_date", "summary"}

EduOptFields == {"degree", "location", "date", "start_date", "end_date", "summary"}

ProjOptFields == {"summary", "location", "date", "start_date", "end_date"}

MetaOptFields == {"headline", "location", "email", "phone", "website"}

\* The optional fields of the entries whose optional fields are not varied.
FixedOpt(f) ==
    CASE f \in {"location", "start_date", "headline"} -> Str("x")
      [] f \in {"summary", "email"} -> Str("")
      [] OTHER -> None

CanonicalTitles == <<"Experience", "Projects", "Education", "Skills">>

\* Titles a plan.section_order can hold; "Publications" names no section.
OrderTitles == SetOf(CanonicalTitles) \cup {"Publications"}

\* The i-th experience entry of a profile.
Experience(i, id, opt, hl) ==
    [id |-> id, company |-> "company" \o ToString(i), position |-> "position" \o ToString(i),
     location |-> opt["location"], date |-> opt["date"],
     start_date |-> opt["start_date"], end_date |-> opt["end_date"],
     summary |-> opt["summary"],
     highlights |-> ListObj(<<"profile", "experience", i>>, hl)]

Education(i, id, opt, hl) ==
    [id |-> id, institution |-> "institution" \o ToString(i), area |-> "area" \o ToString(i),
     degree |-> opt["degree"], location |-> opt["location"], date |-> opt["date"],
     start_date |-> opt["start_date"], end_date |-> opt["end_date"],
     summary |-> opt["summary"],
     highlights |-> ListObj(<<"profile", "education", i>>, hl)]

Project(i, id, opt, hl) ==
    [id |-> id, name |-> "project" \o ToString(i),
     summary |-> opt["summary"], location |-> opt["location"], date |-> opt["date"],
     start_date |-> opt["start_date"], end_date |-> opt["end_date"],
     highlights |-> ListObj(<<"profile", "projects", i>>, hl)]

Skill(i, label) == [label |-> label, details |-> "details" \o ToString(i)]

Meta(opt, socials) ==
    [name |-> "Ada", headline |-> opt["headline"], location |-> opt["location"],
     email |-> opt["email"], phone |-> opt["phone"], website |-> opt["website"],
     socials |-> socials]

Social(i) == [network |-> "network" \o ToString(i), username |-> "user" \o ToString(i)]

SocialVals ==
    {None, ListObj(<<"profile", "socials">>, <<>>),
     ListObj(<<"profile", "socials">>, <<Social(1), Social(2)>>)}

FixedExpOpt == [f \in ExpOptFields |-> FixedOpt(f)]

FixedEduOpt == [f \in EduOptFields |-> FixedOpt(f)]

FixedProjOpt == [f \in ProjOptFields |-> FixedOpt(f)]

FixedMeta == Meta([f \in MetaOptFields |-> FixedOpt(f)], None)

\* Entry lists with the given ids, everything else fixed.
Experiences(ids) == [i \in 1..Len(ids) |-> Experience(i, ids[i], FixedExpOpt, <<"h1", "h2">>)]

Educations(ids) == [i \in 1..Len(ids) |-> Education(i, ids[i], FixedEduOpt, <<"h1", "h2">>)]

Projects(ids) == [i \in 1..Len(ids) |-> Project(i, ids[i], FixedProjOpt, <<"h1", "h2">>)]

Skills(labels) == [i \in 1..Len(labels) |-> Skill(i, labels[i])]

\* plan.bullet_overrides from a function key -> items.
Overrides(m) == [k \in DOMAIN m |-> ListObj(<<"plan", "bullet_overrides", k>>, m[k])]

EmptyProfile ==
    [meta |-> FixedMeta, experience |-> <<>>, education |-> <<>>,
     projects |-> <<>>, skills |-> <<>>]

EmptyPlan ==
    [selected_experience_ids |-> <<>>, selected_education_ids |-> <<>>,
     selected_project_ids |-> <<>>, selected_skill_labels |-> <<>>,
     bullet_overrides |-> EmptyDict, section_order |-> <<>>]

\* A profile with two entries per category and a plan that selects, per
\* category, a different part of it.
FullProfile ==
    [meta |-> FixedMeta,
     experience |-> Experiences(<<Str("a"), Str("b")>>),
     education |-> Educations(<<Str("b"), Str("a")>>),
     projects |-> Projects(<<Str("a"), Str("zz")>>),
     skills |-> Skills(<<"a", "b">>)]

FullPlan ==
    [selected_experience_ids |-> <<"b">>, selected_education_ids |-> <<"a", "b">>,
     selected_project_ids |-> <<"zz", "zz">>, selected_skill_labels |-> <<"b", "a">>,
     bullet_overrides |-> Overrides([k \in {"b"} |-> <<"o1", "o2", "o3">>]),
     section_order |-> <<"Skills">>]

Backgrounds == {<<EmptyProfile, EmptyPlan>>, <<FullProfile, FullPlan>>}

\* An assembler input that build_cv_dict did not produce.
RawBodies == {EmptyDict, [other |-> "y"], [cv |-> [name |-> "raw"]],
              [cv |-> EmptyDict, other |-> "y"]}

\* A design / locale / settings argument: not given, empty, non-empty.
BlockVals == {None, EmptyDict, [theme |-> "custom"]}

(***************************************************************************)
(* The state machine: a caller holds its inputs, calls build_cv_dict and   *)
(* passes the result (or a body of its own) to assemble_rendercv_document. *)
(***************************************************************************)
Idle(body) ==
    /\ cv_dict = body
    /\ document = None
    /\ pc = "start"

NoBlocks ==
    /\ design = None
    /\ locale = None
    /\ settings = None

\* One category's entries and its selection vary; the others are a background.
InitSelect ==
    \E bg \in Backgrounds, sel \in SeqsUpTo(SelKeys, MaxSel) :
        /\ \/ \E ids \in SeqsUpTo(IdVals, MaxEntries) :
                \/ /\ profile = [bg[1] EXCEPT !.experience = Experiences(ids)]
                   /\ plan = [bg[2] EXCEPT !.selected_experience_ids = sel]
                \/ /\ profile = [bg[1] EXCEPT !.education = Educations(ids)]
                   /\ plan = [bg[2] EXCEPT !.selected_education_ids = sel]
                \/ /\ profile = [bg[1] EXCEPT !.projects = Projects(ids)]
                   /\ plan = [bg[2] EXCEPT !.selected_project_ids = sel]
           \/ \E labels \in SeqsUpTo(LabelVals, MaxEntries) :
                /\ profile = [bg[1] EXCEPT !.skills = Skills(labels)]
                /\ plan = [bg[2] EXCEPT !.selected_skill_labels = sel]
        /\ NoBlocks
        /\ Idle([cv |-> [name |-> "raw"]])

HlVals == {<<>>, <<"h1", "h2">>}

OverrideItems == {<<>>, <<"o1">>}

OverrideMaps == UNION {[K -> OverrideItems] : K \in SUBSET {"", "a"}}

\* One entry per category; ids, highlights and bullet_overrides vary.
InitOverride ==
    \E e \in IdVals \X HlVals, d \in IdVals \X HlVals, p \in IdVals \X HlVals,
       m \in OverrideMaps :
        /\ profile = [EmptyProfile EXCEPT
                        !.experience = <<Experience(1, e[1], FixedExpOpt, e[2])>>,
                        !.education = <<Education(1, d[1], FixedEduOpt, d[2])>>,
                        !.projects = <<Project(1, p[1], FixedProjOpt, p[2])>>]
        /\ plan = [EmptyPlan EXCEPT !.bullet_overrides = Overrides(m)]
        /\ NoBlocks
        /\ Idle([cv |-> [name |-> "raw"]])

\* section_order varies over every set of non-empty sections.
InitOrder ==
    \E order \in SeqsUpTo(OrderTitles, MaxOrder), present \in SUBSET SetOf(CanonicalTitles) :
        /\ profile = [EmptyProfile EXCEPT
                        !.experience = IF "Experience" \in present
                                       THEN Experiences(<<Str("a")>>) ELSE <<>>,
                        !.projects = IF "Projects" \in present
                                     THEN Projects(<<Str("a")>>) ELSE <<>>,
                        !.education = IF "Education" \in present
                                      THEN Educations(<<Str("a")>>) ELSE <<>>,
                        !.skills = IF "Skills" \in present THEN Skills(<<"a">>) ELSE <<>>]
        /\ plan = [EmptyPlan EXCEPT !.section_order = order]
        /\ NoBlocks
        /\ Idle([cv |-> [name |-> "raw"]])

\* The optional fields of the header, or of one entry, take every value.
InitFields ==
    /\ \/ \E opt \in [MetaOptFields -> OptVals], socials \in SocialVals :
            profile = [EmptyProfile EXCEPT !.meta = Meta(opt, socials)]
       \/ \E opt \in [ExpOptFields -> OptVals], hl \in HlVals :
            profile = [EmptyProfile EXCEPT
                         !.experience = <<Experience(1, Str("a"), opt, hl)>>]
       \/ \E opt \in [EduOptFields -> OptVals], hl \in HlVals :
            profile = [EmptyProfile EXCEPT
                         !.education = <<Education(1, Str("a"), opt, hl)>>]
       \/ \E opt \in [ProjOptFields -> OptVals], hl \in HlVals :
            profile = [EmptyProfile EXCEPT
                         !.projects = <<Project(1, Str("a"), opt, hl)>>]
    /\ plan \in {EmptyPlan, [EmptyPlan EXCEPT !.bullet_overrides =
                                Overrides([k \in {"a"} |-> <<>>])]}
    /\ NoBlocks
    /\ Idle([cv |-> [name |-> "raw"]])

\* The assembler's arguments vary.
InitAssemble ==
    /\ \E bg \in Backgrounds : profile = bg[1] /\ plan = bg[2]
    /\ design \in BlockVals
    /\ locale \in BlockVals
    /\ settings \in BlockVals
    /\ \E body \in RawBodies : Idle(body)

Init == InitSelect \/ InitOverride \/ InitOrder \/ InitFields \/ InitAssemble

\* cv_dict = build_cv_dict(profile, plan)
BuildCvDict ==
    /\ pc = "start"
    /\ cv_dict' = build_cv_dict(profile, plan)
    /\ pc' = "mapped"
    /\ UNCHANGED <<profile, plan, design, locale, settings, document>>

\* document = assemble_rendercv_document(cv_dict, design=, locale=, settings=),
\* on the mapper's result or on the caller's own body.
AssembleRendercvDocument ==
    /\ pc \in {"start", "mapped"}
    /\ document' = assemble_rendercv_document(cv_dict, design, locale, settings)
    /\ pc' = IF pc = "mapped" THEN "assembled" ELSE "assembled_raw"
    /\ UNCHANGED <<profile, plan, design, locale, settings, cv_dict>>

Next == BuildCvDict \/ AssembleRendercvDocument

Spec == Init /\ [][Next]_vars

\* cv_dict holds the result of build_cv_dict(profile, plan).
Mapped == pc \in {"mapped", "assembled"}

\* document holds the result of assemble_rendercv_document.
Assembled == pc \in {"assembled", "assembled_raw"}

(***************************************************************************)
(* What the claims speak of, stated on the inputs and the outputs.         *)
(***************************************************************************)
Categories == {"experience", "education", "projects"}

TitleOf(cat) ==
    CASE cat = "experience" -> "Experience"
      [] cat = "education"  -> "Education"
      [] cat = "projects"   -> "Projects"
      [] cat = "skills"     -> "Skills"

SelectedIdsOf(cat) ==
    CASE cat = "experience" -> plan.selected_experience_ids
      [] cat = "education"  -> plan.selected_education_ids
      [] cat = "projects"   -> plan.selected_project_ids

RequiredOf(cat) ==
    CASE cat = "experience" -> {"company", "position"}
      [] cat = "education"  -> {"institution", "area"}
      [] cat = "projects"   -> {"name"}
      [] cat = "skills"     -> {"label", "details"}

OptionalOf(cat) ==
    CASE cat = "experience" -> ExpOptFields
      [] cat = "education"  -> EduOptFields
      [] cat = "projects"   -> ProjOptFields

\* The section mapping of the mapper's output (empty when it has no sections key).
OutSections == IF "sections" \in DOMAIN cv_dict.cv THEN cv_dict.cv.sections ELSE <<>>

\* The entries the output holds under a section title (none when the key is absent).
OutSection(title) == IF OHas(OutSections, title) THEN OGet(OutSections, title) ELSE <<>>

\* Positions of the profile entries of a category that the plan selects.
SelectedIdx(cat) ==
    LET items == profile[cat]
        sel == SelectedIdsOf(cat)
    IN  IF Len(sel) = 0 THEN 1..Len(items)
        ELSE {i \in 1..Len(items) :
                 /\ items[i].id # None
                 /\ \E j \in 1..Len(sel) : sel[j] = items[i].id.v}

\* Positions of the profile skills that the plan selects.
SelectedSkillIdx ==
    LET sel == plan.selected_skill_labels
    IN  IF Len(sel) = 0 THEN 1..Len(profile.skills)
        ELSE {i \in 1..Len(profile.skills) :
                 \E j \in 1..Len(sel) : sel[j] = profile.skills[i].label}

\* The k-th smallest member of a set of positions.
Kth(S, k) == CHOOSE i \in S : Cardinality({j \in S : j <= i}) = k

\* The profile entry the k-th output entry of a category is drawn from.
Origin(cat, k) == profile[cat][Kth(SelectedIdx(cat), k)]

\* An output entry carries the required fields of a profile entry.
SameRequired(cat, item, entry) == \A f \in RequiredOf(cat) : item[f] = entry[f]

\* An output entry shows exactly the bullets xs: no key when there are none.
HighlightsAre(item, xs) ==
    IF xs = <<>> THEN "highlights" \notin DOMAIN item
    ELSE "highlights" \in DOMAIN item /\ item.highlights.v = xs

\* An identifier that is absent or empty.
NoId(id) == id = None \/ id = Str("")

\* C1: per category, the mapped entries are all profile entries in profile
\* order when the selection list is empty, and otherwise exactly the entries
\* whose id is in the list, in profile order, whatever the list's order or
\* repetitions.
C1_SelectionByIdInProfileOrder ==
    Mapped =>
        \A cat \in Categories :
            LET out == OutSection(TitleOf(cat))
                S == SelectedIdx(cat)
            IN  /\ Len(out) = Cardinality(S)
                /\ \A k \in 1..Len(out) : SameRequired(cat, out[k], profile[cat][Kth(S, k)])

\* Both entries selected by a list that names them in reverse order.
C1_Witness ==
    /\ Mapped
    /\ plan.selected_experience_ids = <<"b", "a">>
    /\ Len(profile.experience) = 2
    /\ profile.experience[1].id = Str("a")
    /\ profile.experience[2].id = Str("b")
    /\ Len(OutSection("Experience")) = 2
    /\ OutSection("Experience")[1].company = profile.experience[1].company

\* C2: a selected entry whose (non-empty) id is a key of bullet_overrides
\* shows exactly the override list, whatever its own highlights; an entry
\* whose id is absent or empty shows its own highlights, even when
\* bullet_overrides has the empty key.
C2_OverrideReplacesHighlights ==
    Mapped =>
        \A cat \in Categories :
            \A k \in 1..Len(OutSection(TitleOf(cat))) :
                LET item == OutSection(TitleOf(cat))[k]
                    E == Origin(cat, k)
                IN  /\ (~NoId(E.id) /\ E.id.v \in DOMAIN plan.bullet_overrides)
                          => HighlightsAre(item, plan.bullet_overrides[E.id.v].v)
                    /\ NoId(E.id) => HighlightsAre(item, E.highlights.v)

\* An overridden entry next to an entry with the empty id and an override
\* under the empty key.
C2_Witness ==
    /\ Mapped
    /\ DOMAIN plan.bullet_overrides = {"", "a"}
    /\ plan.bullet_overrides["a"].v = <<"o1">>
    /\ plan.bullet_overrides[""].v = <<"o1">>
    /\ Len(profile.experience) = 1
    /\ profile.experience[1].id = Str("a")
    /\ profile.experience[1].highlights.v = <<"h1", "h2">>
    /\ OutSection("Experience")[1].highlights.v = <<"o1">>
    /\ Len(profile.education) = 1
    /\ profile.education[1].id = Str("")
    /\ profile.education[1].highlights.v = <<"h1", "h2">>
    /\ OutSection("Education")[1].highlights.v = <<"h1", "h2">>

\* Titles of the categories with at least one selected entry.
NonEmptyTitles ==
    {TitleOf(cat) : cat \in {c \in Categories : SelectedIdx(c) # {}}}
        \cup (IF SelectedSkillIdx # {} THEN {"Skills"} ELSE {})

FirstPos(xs, x) == CHOOSE i \in 1..Len(xs) : xs[i] = x /\ \A j \in 1..(i - 1) : xs[j] # x

\* Title x is to come before title y under the preferred order.
Before(order, x, y) ==
    LET named == SetOf(order)
    IN  CASE x \in named /\ y \in named -> FirstPos(order, x) < FirstPos(order, y)
          [] x \in named /\ y \notin named -> TRUE
          [] x \notin named /\ y \in named -> FALSE
          [] OTHER -> FirstPos(CanonicalTitles, x) < FirstPos(CanonicalTitles, y)

\* C3: the output's section keys are exactly the non-empty canonical
\* sections, each once; those named in section_order come first in its order
\* (unknown and repeated titles change nothing), the rest follow in canonical
\* order; [Skills, Education] with four sections gives Skills, Education,
\* Experience, Projects.
C3_SectionOrder ==
    Mapped =>
        LET keys == OKeys(OutSections)
        IN  /\ SetOf(keys) = NonEmptyTitles
            /\ Len(keys) = Cardinality(NonEmptyTitles)
            /\ \A i, j \in 1..Len(keys) :
                   i < j => Before(plan.section_order, keys[i], keys[j])
            /\ (plan.section_order = <<"Skills", "Education">>
                    /\ NonEmptyTitles = SetOf(CanonicalTitles))
                 => keys = <<"Skills", "Education", "Experience", "Projects">>

\* All four sections built and reordered by [Skills, Education].
C3_Witness ==
    /\ Mapped
    /\ plan.section_order = <<"Skills", "Education">>
    /\ OKeys(OutSections) = <<"Skills", "Education", "Experience", "Projects">>

\* An Optional[str] or list value that is absent or empty.
AbsentOrEmpty(x) == x = None \/ x = Str("") \/ (x.t = "list" /\ x.v = <<>>)

\* C4 as claimed: neither the header nor a mapped entry has a key for an
\* optional field whose source value is None or empty.
C4_NoKeyForAbsentOrEmpty ==
    Mapped =>
        /\ \A f \in MetaOptFields :
               AbsentOrEmpty(profile.meta[f]) => f \notin DOMAIN cv_dict.cv
        /\ AbsentOrEmpty(profile.meta.socials) => "social_networks" \notin DOMAIN cv_dict.cv
        /\ \A cat \in Categories :
               \A k \in 1..Len(OutSection(TitleOf(cat))) :
                   LET item == OutSection(TitleOf(cat))[k]
                   IN  /\ \A f \in OptionalOf(cat) :
                              AbsentOrEmpty(Origin(cat, k)[f]) => f \notin DOMAIN item
                       /\ "highlights" \in DOMAIN item => item.highlights.v # <<>>

\* C5: a section key exists only for a category with at least one mapped
\* entry; a non-empty selection that matches nothing omits the section
\* instead of selecting all.
C5_NoEmptySection ==
    Mapped =>
        /\ \A i \in 1..Len(OutSections) : Len(OutSections[i].v) > 0
        /\ \A cat \in Categories :
               (Len(SelectedIdsOf(cat)) > 0 /\ SelectedIdx(cat) = {})
                   => ~OHas(OutSections, TitleOf(cat))
        /\ (Len(plan.selected_skill_labels) > 0 /\ SelectedSkillIdx = {})
               => ~OHas(OutSections, "Skills")
        /\ \A cat \in Categories :
               OHas(OutSections, TitleOf(cat)) <=> SelectedIdx(cat) # {}
        /\ OHas(OutSections, "Skills") <=> SelectedSkillIdx # {}

\* No skills in the profile while skill labels are selected: no Skills key,
\* and the other sections are still there.
C5_Witness ==
    /\ Mapped
    /\ profile.skills = <<>>
    /\ Len(plan.selected_skill_labels) > 0
    /\ Len(profile.projects) = 2
    /\ plan.selected_project_ids = <<"zz", "zz">>
    /\ Len(OutSection("Projects")) = 1
    /\ ~OHas(OutSections, "Skills")
    /\ OHas(OutSections, "Experience")

\* C6: the document has exactly the keys cv, design, locale, settings; each
\* block is the override when one is given (an empty one too) and the default
\* otherwise; cv is the body's cv, or empty when the body has none.
C6_AssembledDocument ==
    Assembled =>
        /\ DOMAIN document = {"cv", "design", "locale", "settings"}
        /\ document.design = (IF design = None THEN get_default_design ELSE design)
        /\ document.locale = (IF locale = None THEN get_default_locale ELSE locale)
        /\ document.settings = (IF settings = None THEN get_default_settings ELSE settings)
        /\ document.cv = (IF "cv" \in DOMAIN cv_dict THEN cv_dict.cv ELSE EmptyDict)

\* An empty design override, no locale override, a body without a cv key.
C6_Witness ==
    /\ Assembled
    /\ design = EmptyDict
    /\ locale = None
    /\ settings = [theme |-> "custom"]
    /\ "cv" \notin DOMAIN cv_dict
    /\ document = [cv |-> EmptyDict, design |-> EmptyDict,
                   locale |-> get_default_locale, settings |-> [theme |-> "custom"]]

\* C7: every output entry has a profile entry of its category whose fields
\* it repeats; only highlights may differ, and only when the entry's id is a
\* key of bullet_overrides.
C7_EntriesDrawnFromProfile ==
    Mapped =>
        /\ \A cat \in Categories :
               \A k \in 1..Len(OutSection(TitleOf(cat))) :
                   LET item == OutSection(TitleOf(cat))[k]
                   IN  \E i \in 1..Len(profile[cat]) :
                           LET E == profile[cat][i]
                           IN  /\ DOMAIN item \subseteq
                                      RequiredOf(cat) \cup OptionalOf(cat) \cup {"highlights"}
                               /\ \A f \in DOMAIN item \ {"highlights"} : item[f] = E[f]
                               /\ (E.id = None \/ E.id.v \notin DOMAIN plan.bullet_overrides)
                                      => HighlightsAre(item, E.highlights.v)
        /\ \A k \in 1..Len(OutSection("Skills")) :
               \E i \in 1..Len(profile.skills) : OutSection("Skills")[k] = profile.skills[i]

\* An entry that keeps its fields while its highlights are overridden, next
\* to one that keeps its highlights too.
C7_Witness ==
    /\ Mapped
    /\ profile.experience = FullProfile.experience
    /\ plan.selected_experience_ids = <<"b">>
    /\ "b" \in DOMAIN plan.bullet_overrides
    /\ OutSection("Experience")[1].highlights.v = <<"o1", "o2", "o3">>
    /\ OutSection("Experience")[1].location = Str("x")
    /\ Len(OutSection("Projects")) = 1
    /\ OutSection("Projects")[1].highlights.v = <<"h1", "h2">>

\* C8: skills are selected by label: all of them in profile order when
\* selected_skill_labels is empty, otherwise exactly those whose label is
\* listed, in profile order; each mapped skill has both label and details.
C8_SkillSelectionByLabel ==
    Mapped =>
        LET out == OutSection("Skills")
            S == SelectedSkillIdx
        IN  /\ Len(out) = Cardinality(S)
            /\ \A k \in 1..Len(out) :
                   /\ DOMAIN out[k] = {"label", "details"}
                   /\ out[k].label = profile.skills[Kth(S, k)].label
                   /\ out[k].details = profile.skills[Kth(S, k)].details

\* A repeated label selects the one skill that carries it.
C8_Witness ==
    /\ Mapped
    /\ plan.selected_skill_labels = <<"b", "b">>
    /\ Len(profile.skills) = 2
    /\ profile.skills[1].label = "a"
    /\ profile.skills[2].label = "b"
    /\ Len(OutSection("Skills")) = 1
    /\ OutSection("Skills")[1].details = profile.skills[2].details

\* The identities of the lists of strings the inputs hold.
InputListRefs ==
    UNION {{profile[cat][i].highlights.ref : i \in 1..Len(profile[cat])} : cat \in Categories}
        \cup {plan.bullet_overrides[k].ref : k \in DOMAIN plan.bullet_overrides}

\* The highlights lists of a section mapping, as <<title, position, list>>.
HighlightLists(sections) ==
    UNION {{<<sections[s].k, k, sections[s].v[k].highlights>> :
                k \in {n \in 1..Len(sections[s].v) : "highlights" \in DOMAIN sections[s].v[n]}}
           : s \in 1..Len(sections)}

DocumentSections ==
    IF "sections" \in DOMAIN document.cv THEN document.cv.sections ELSE <<>>

\* Every highlights list of the output is a list of its own: none is a list
\* of the inputs, and no two entries share one.
FreshHighlights(sections) ==
    /\ \A h \in HighlightLists(sections) : h[3].ref \notin InputListRefs
    /\ \A g, h \in HighlightLists(sections) : g[3].ref = h[3].ref => g = h

\* C9: no call changes the profile, the plan, the body it is given or the
\* design/locale/settings arguments, and every highlights list of the output
\* is a new list, none of the profile's or the plan's.
C9_InputsUntouched ==
    [][/\ profile' = profile
       /\ plan' = plan
       /\ design' = design
       /\ locale' = locale
       /\ settings' = settings
       /\ pc' \in {"assembled", "assembled_raw"} => cv_dict' = cv_dict
       /\ pc' \in {"mapped", "assembled"} => FreshHighlights(OutSections)'
       /\ pc' = "assembled" => FreshHighlights(DocumentSections)']_vars

\* An assembled document whose entries hold an override and an original list.
C9_Witness ==
    /\ pc = "assembled"
    /\ "a" \in DOMAIN plan.bullet_overrides
    /\ Cardinality(HighlightLists(DocumentSections)) = 3
    /\ \E h \in HighlightLists(DocumentSections) :
           /\ h[1] = "Experience"
           /\ h[3].v = plan.bullet_overrides["a"].v
    /\ \E h \in HighlightLists(DocumentSections) :
           /\ h[1] = "Education"
           /\ h[3].v = profile.education[1].highlights.v

====
